---- MODULE Spec2Model ----
(***************************************************************************)
(* Write path of the Solana indexer plugin: N dispatch workers             *)
(* (parallel_client_worker.rs, do_work), each bound to its own             *)
(* SimplePostgresClient (postgres_client/mod.rs), fed by a producer        *)
(* through one queue per worker and coordinated by three atomics           *)
(* (exit_worker, is_startup_done, startup_done_count).                     *)
(*                                                                         *)
(* The token-account handler (postgres_client/token_account_handler.rs)    *)
(* is modelled with the table it writes.                                   *)
(*                                                                         *)
(* The specifications share the state:                                     *)
(*   Spec         the worker pool: producer, queues, workers, their sinks; *)
(*   FairSpec     the worker pool with every worker thread scheduled;      *)
(*   SinkSpec     one sink driven directly by any sequence of operations;  *)
(*   HandlerSpec  the token handler called for any accounts in any order.  *)
(***************************************************************************)
EXTENDS Integers, Sequences, FiniteSets, TLC

\* ---------------------------------------------------------------- bounds
NumWorkers == 2     \* workers of the pool
MaxRequests == 2    \* requests the producer sends (Spec)
MaxCalls == 4       \* operations applied to the sink (SinkSpec)
MaxSlot == 2        \* slots are 1..MaxSlot
MaxBatchSize == 2   \* batch_size is 1..MaxBatchSize
MaxQueue == 2       \* capacity of a worker's queue
MaxFairRequests == 1 \* requests the producer sends (FairSpec)
MaxFailures == 1    \* statements the database refuses in one run of the pool
MaxUpdates == 2     \* account_update calls made on the token handler (HandlerSpec)
MaxKey == 2         \* key bytes are 1..MaxKey

Workers == 1..NumWorkers
Slots == 1..MaxSlot
BatchSizes == 1..MaxBatchSize

VARIABLES
    batch_size,             \* config.batch_size (mod.rs:72)
    panic_on_db_errors,     \* do_work parameter (worker.rs:72)
    client,                 \* per worker: the sink's slots_at_startup and pending_account_updates
    worker_is_startup_done, \* per worker: self.is_startup_done (worker.rs:51)
    pc,                     \* per worker: position in do_work
    queue,                  \* per worker: requests in the channel
    exit_worker,            \* shared AtomicBool
    is_startup_done,        \* shared AtomicBool
    startup_done_count,     \* shared AtomicUsize
    connected,              \* the producer still holds the senders
    aborted,                \* abort() was called: the process is gone
    next_id,                \* number of the next request (Spec) or sink call (SinkSpec)
    replay_ids,             \* history: startup account updates enqueued before is_startup_done was set
    enqueued,               \* history, per worker: every request sent to the queue, in order
    dispatched,             \* history, per worker: every request handed to the sink, in order
    executed,               \* history, per worker: every statement sent to the database, in order
    last_call,              \* history, per worker: the sink call made last
    dispatched_at_exit,     \* history, per worker: requests dispatched when exit_worker was set
    table,                  \* the rows of spl_token_account (token_account_handler.rs:41-46)
    handled,                \* history: the token handler's last account_update call
    applied                 \* history: the rows whose upsert the database accepted, by worker

vars == <<batch_size, panic_on_db_errors, client, worker_is_startup_done, pc, queue,
          exit_worker, is_startup_done, startup_done_count, connected, aborted,
          next_id, replay_ids, enqueued, dispatched, executed, last_call,
          dispatched_at_exit, table, handled, applied>>

\* ------------------------------------------------------------ requests
\* WorkRequest (worker.rs:41-46); id is the producer's sequence number.
UpdateAccount(id, slot, matched, startup) ==
    [kind |-> "UpdateAccount", id |-> id, slot |-> slot, matched |-> matched, is_startup |-> startup]
UpdateSlot(id, slot) ==
    [kind |-> "UpdateSlot", id |-> id, slot |-> slot, matched |-> TRUE, is_startup |-> FALSE]
LogTransaction(id) ==
    [kind |-> "LogTransaction", id |-> id, slot |-> 0, matched |-> TRUE, is_startup |-> FALSE]
UpdateBlockMetadata(id) ==
    [kind |-> "UpdateBlockMetadata", id |-> id, slot |-> 0, matched |-> TRUE, is_startup |-> FALSE]

\* Account updates of startup replay and of steady state.  What the
\* handlers make of a record is its matched flag: whether they produce a
\* statement for it.
StartupAccounts(id) == {UpdateAccount(id, s, TRUE, TRUE) : s \in Slots}
LiveAccounts(id, S) == {UpdateAccount(id, s, m, FALSE) : s \in S, m \in BOOLEAN}

\* The requests the sink is driven with directly.
SinkRequest(id) ==
    StartupAccounts(id) \cup LiveAccounts(id, Slots)
    \cup {UpdateSlot(id, s) : s \in Slots}
    \cup {LogTransaction(id), UpdateBlockMetadata(id)}

\* The requests the producer sends.  The worker passes the slot of a live
\* update or of a slot status through untouched, so one slot stands for all.
WorkRequest(id) ==
    StartupAccounts(id) \cup LiveAccounts(id, {MaxSlot})
    \cup {UpdateSlot(id, MaxSlot), LogTransaction(id), UpdateBlockMetadata(id)}

\* ---------------------------------------------------------------- sink
\* One batch_execute / execute call: the operation, the account records
\* whose handler output makes up the query, the slot of a slot upsert,
\* and whether the database accepted it.
Stmt(op, batch, slot, ok) == [op |-> op, batch |-> batch, slot |-> slot, ok |-> ok]

Ids(recs) == [i \in 1..Len(recs) |-> recs[i].id]

Result(sink, stmts, err) == [sink |-> sink, stmts |-> stmts, err |-> err]

NewClient == [slots_at_startup |-> {}, pending_account_updates |-> <<>>]

NoCall == [op |-> "none", stmts |-> <<>>, err |-> FALSE, before |-> NewClient]

\* Mutant: the flush fires one record late.
BatchFullLate(pending) == Len(pending) > batch_size

\* mod.rs:151 -- the size test that triggers the flush.
BatchFull(pending) == Len(pending) >= batch_size

\* Mutant: the slot is recorded after the flush, which returns early when
\* the batch is refused.
update_account_slot_after_flush(sink, account, startup, ok) ==
    IF startup
    THEN LET slots == sink.slots_at_startup \cup {account.slot}
             pending == Append(sink.pending_account_updates, account)
         IN  IF BatchFull(pending)
             THEN Result([slots_at_startup |-> IF ok THEN slots ELSE sink.slots_at_startup,
                          pending_account_updates |-> <<>>],
                         <<Stmt("update_account_batch", Ids(pending), 0, ok)>>, ~ok)
             ELSE Result([slots_at_startup |-> slots, pending_account_updates |-> pending],
                         <<>>, FALSE)
    ELSE IF account.matched
         THEN Result(sink, <<Stmt("update_account", <<account.id>>, 0, ok)>>, ~ok)
         ELSE Result(sink, <<>>, FALSE)

\* Mutant: a refused batch is kept in the buffer for the next flush.
update_account_keeps_refused(sink, account, startup, ok) ==
    IF startup
    THEN LET slots == sink.slots_at_startup \cup {account.slot}
             pending == Append(sink.pending_account_updates, account)
         IN  IF BatchFull(pending)
             THEN Result([slots_at_startup |-> slots,
                          pending_account_updates |-> IF ok THEN <<>> ELSE pending],
                         <<Stmt("update_account_batch", Ids(pending), 0, ok)>>, ~ok)
             ELSE Result([slots_at_startup |-> slots, pending_account_updates |-> pending],
                         <<>>, FALSE)
    ELSE IF account.matched
         THEN Result(sink, <<Stmt("update_account", <<account.id>>, 0, ok)>>, ~ok)
         ELSE Result(sink, <<>>, FALSE)

\* Mutant: the slot is recorded before is_startup is looked at.
update_account_records_every_slot(sink, account, startup, ok) ==
    LET slots == sink.slots_at_startup \cup {account.slot}
    IN  IF startup
        THEN LET pending == Append(sink.pending_account_updates, account)
             IN  IF BatchFull(pending)
                 THEN Result([slots_at_startup |-> slots, pending_account_updates |-> <<>>],
                             <<Stmt("update_account_batch", Ids(pending), 0, ok)>>, ~ok)
                 ELSE Result([slots_at_startup |-> slots, pending_account_updates |-> pending],
                             <<>>, FALSE)
        ELSE LET same == [sink EXCEPT !.slots_at_startup = slots]
             IN  IF account.matched
                 THEN Result(same, <<Stmt("update_account", <<account.id>>, 0, ok)>>, ~ok)
                 ELSE Result(same, <<>>, FALSE)

\* mod.rs:141-199
update_account(sink, account, startup, ok) ==
    IF startup
    THEN LET slots == sink.slots_at_startup \cup {account.slot}
             pending == Append(sink.pending_account_updates, account)
         IN  IF BatchFull(pending)
             THEN Result([slots_at_startup |-> slots, pending_account_updates |-> <<>>],
                         <<Stmt("update_account_batch", Ids(pending), 0, ok)>>, ~ok)
             ELSE Result([slots_at_startup |-> slots, pending_account_updates |-> pending],
                         <<>>, FALSE)
    ELSE IF account.matched
         THEN Result(sink, <<Stmt("update_account", <<account.id>>, 0, ok)>>, ~ok)
         ELSE Result(sink, <<>>, FALSE)

\* mod.rs:201-215
update_slot_status(sink, slot, ok) ==
    Result(sink, <<Stmt("update_slot_status", <<>>, slot, ok)>>, ~ok)

\* mod.rs:276-278
log_transaction(sink, ok) ==
    Result(sink, <<Stmt("log_transaction", <<>>, 0, ok)>>, ~ok)

\* mod.rs:280-282
update_block_metadata(sink, ok) ==
    Result(sink, <<Stmt("update_block_metadata", <<>>, 0, ok)>>, ~ok)

\* The orders in which a HashSet<u64> may be iterated.
Orders(S) ==
    {o \in [1..Cardinality(S) -> S] : \A i, j \in 1..Cardinality(S) : i # j => o[i] # o[j]}

\* Mutant: the slot loop ends one slot early.
FlushSlotsShort(order, fail) ==
    [i \in 1..(IF fail = 0 THEN Len(order) - 1 ELSE fail) |->
        Stmt("flush_slots", <<>>, order[i], i # fail)]

\* mod.rs:245-253 -- the Rooted upserts; the fail-th one (0: none) is
\* refused by the database and ends the loop.
FlushSlots(order, fail) ==
    [i \in 1..(IF fail = 0 THEN Len(order) ELSE fail) |->
        Stmt("flush_slots", <<>>, order[i], i # fail)]

\* Mutant: the final flush reads the buffer without draining it.
notify_keeps_buffer(sink, ok, order, fail) ==
    LET flush == Stmt("flush_accounts", Ids(sink.pending_account_updates), 0, ok)
    IN  IF ~ok
        THEN Result(sink, <<flush>>, TRUE)
        ELSE Result(sink, <<flush>> \o FlushSlots(order, fail), fail # 0)

\* Mutant: the slots are rooted before the accounts are flushed.
notify_slots_first(sink, ok, order, fail) ==
    LET flush == Stmt("flush_accounts", Ids(sink.pending_account_updates), 0, ok)
        drained == [sink EXCEPT !.pending_account_updates = <<>>]
    IN  IF fail # 0
        THEN Result(drained, FlushSlots(order, fail), TRUE)
        ELSE Result(drained, FlushSlots(order, fail) \o <<flush>>, ~ok)

\* mod.rs:217-274
notify_end_of_startup(sink, ok, order, fail) ==
    LET flush == Stmt("flush_accounts", Ids(sink.pending_account_updates), 0, ok)
        drained == [sink EXCEPT !.pending_account_updates = <<>>]
    IN  IF ~ok
        THEN Result(drained, <<flush>>, TRUE)
        ELSE Result(drained, <<flush>> \o FlushSlots(order, fail), fail # 0)

\* A sink call of worker w: its effect on the sink and on the histories.
SinkCall(w, op, r) ==
    /\ client' = [client EXCEPT ![w] = r.sink]
    /\ executed' = [executed EXCEPT ![w] = @ \o r.stmts]
    /\ last_call' = [last_call EXCEPT ![w] =
            [op |-> op, stmts |-> r.stmts, err |-> r.err, before |-> client[w]]]

\* The sink operation a request stands for (worker.rs:81, 89, 97, 105).
OpOf(work) ==
    CASE work.kind = "UpdateAccount" -> "update_account"
      [] work.kind = "UpdateSlot" -> "update_slot_status"
      [] work.kind = "LogTransaction" -> "log_transaction"
      [] work.kind = "UpdateBlockMetadata" -> "update_block_metadata"

\* worker.rs:80-113 -- the sink call made for a request.
Dispatch(sink, work, ok) ==
    CASE work.kind = "UpdateAccount" -> update_account(sink, work, work.is_startup, ok)
      [] work.kind = "UpdateSlot" -> update_slot_status(sink, work.slot, ok)
      [] work.kind = "LogTransaction" -> log_transaction(sink, ok)
      [] work.kind = "UpdateBlockMetadata" -> update_block_metadata(sink, ok)

\* -------------------------------------------------------------- worker
\* Mutant: the channel hands out the newest request.
ReceivedNewest(q) == q[Len(q)]

\* worker.rs:76 -- the channel hands out the oldest request.
Received(q) == Head(q)
Remaining(q) == Tail(q)

\* Mutant: the error is logged and abort() is never called.
NeverAborts(err) == FALSE

\* worker.rs:84-86, 92-94, 100-102, 108-110, 119-121 -- abort() on a sink error.
Aborts(err) == err /\ panic_on_db_errors

\* Mutant: a sink error breaks out of the loop.
StopOnError(err) == IF Aborts(err) THEN "aborted" ELSE IF err THEN "stopped" ELSE "loop"

\* worker.rs:83-87 -- where the worker is after a sink call.
AfterCall(err) == IF Aborts(err) THEN "aborted" ELSE "loop"

\* Mutant: the worker's own is_startup_done is not consulted.
ShouldNotifyAgain(w) == is_startup_done

\* Mutant: the test of the local flag lost its negation.
ShouldNotifyInverted(w) == worker_is_startup_done[w] /\ is_startup_done

\* worker.rs:116 -- the test made on a receive timeout.
ShouldNotify(w) == ~worker_is_startup_done[w] /\ is_startup_done

\* Statements the database has refused so far, and what it may answer next.
RECURSIVE Refused(_)
Refused(log) ==
    IF log = <<>> THEN 0 ELSE (IF Head(log).ok THEN 0 ELSE 1) + Refused(Tail(log))
RECURSIVE RefusedBy(_)
RefusedBy(W) ==
    IF W = {} THEN 0
    ELSE LET w == CHOOSE x \in W : TRUE IN Refused(executed[w]) + RefusedBy(W \ {w})
Outcomes == IF RefusedBy(Workers) < MaxFailures THEN BOOLEAN ELSE {TRUE}
FailAt(n) == IF RefusedBy(Workers) < MaxFailures THEN 0..n ELSE {0}

\* abort() ends the process: nothing runs after it.
Alive == ~aborted

\* Mutant: the loop never looks at exit_worker.
ExitsNever == FALSE

\* worker.rs:74 -- the value loaded from exit_worker.
Exits == exit_worker

\* Mutant: the handshake is acknowledged only when the flush succeeded.
AcknowledgesOnSuccess(err) == ~err

\* worker.rs:118-124 -- the local flag and the counter are updated after
\* notify_end_of_startup unless its error aborted the process.
Acknowledges(err) == ~Aborts(err)

\* Mutant: the break after a receive error is missing.
RetryAfterRecvError == IF panic_on_db_errors THEN "aborted" ELSE "loop"

\* worker.rs:129-135 -- a receive error other than a timeout aborts the
\* process or breaks out of the loop.
AfterRecvError == IF panic_on_db_errors THEN "aborted" ELSE "stopped"

\* worker.rs:74 -- the loop condition.
LoopCheck(w) ==
    /\ Alive
    /\ pc[w] = "loop"
    /\ pc' = [pc EXCEPT ![w] = IF Exits THEN "stopped" ELSE "recv"]
    /\ UNCHANGED <<table, handled, applied, dispatched_at_exit,
                   batch_size, panic_on_db_errors, client, worker_is_startup_done, queue,
                   exit_worker, is_startup_done, startup_done_count, connected, aborted,
                   next_id, replay_ids, enqueued, dispatched, executed, last_call>>

\* worker.rs:76-113 -- a request is received and handed to the sink.
RecvWork(w) ==
    /\ Alive
    /\ pc[w] = "recv"
    /\ queue[w] # <<>>
    /\ \E ok \in Outcomes :
        LET work == Received(queue[w])
            r == Dispatch(client[w], work, ok)
        IN  /\ queue' = [queue EXCEPT ![w] = Remaining(queue[w])]
            /\ dispatched' = [dispatched EXCEPT ![w] = Append(@, work)]
            /\ SinkCall(w, OpOf(work), r)
            /\ aborted' = Aborts(r.err)
            /\ pc' = [pc EXCEPT ![w] = AfterCall(r.err)]
    /\ UNCHANGED <<table, handled, applied, dispatched_at_exit,
                   batch_size, panic_on_db_errors, worker_is_startup_done,
                   exit_worker, is_startup_done, startup_done_count, connected,
                   next_id, replay_ids, enqueued>>

\* worker.rs:76, 115 -- nothing arrived within the timeout.
RecvTimeout(w) ==
    /\ Alive
    /\ pc[w] = "recv"
    /\ queue[w] = <<>>
    /\ connected
    /\ pc' = [pc EXCEPT ![w] = "timeout"]
    /\ UNCHANGED <<table, handled, applied, dispatched_at_exit,
                   batch_size, panic_on_db_errors, client, worker_is_startup_done, queue,
                   exit_worker, is_startup_done, startup_done_count, connected, aborted,
                   next_id, replay_ids, enqueued, dispatched, executed, last_call>>

\* worker.rs:116-125 -- the end-of-startup handshake.
EndOfStartup(w) ==
    /\ Alive
    /\ pc[w] = "timeout"
    /\ ShouldNotify(w)
    /\ \E ok \in Outcomes, order \in Orders(client[w].slots_at_startup) :
       \E fail \in FailAt(Len(order)) :
            LET r == notify_end_of_startup(client[w], ok, order, fail)
            IN  /\ SinkCall(w, "notify_end_of_startup", r)
                /\ aborted' = Aborts(r.err)
                /\ pc' = [pc EXCEPT ![w] = AfterCall(r.err)]
                /\ IF ~Acknowledges(r.err)
                   THEN UNCHANGED <<worker_is_startup_done, startup_done_count>>
                   ELSE /\ worker_is_startup_done' =
                                [worker_is_startup_done EXCEPT ![w] = TRUE]
                        /\ startup_done_count' = startup_done_count + 1
    /\ UNCHANGED <<table, handled, applied, dispatched_at_exit,
                   batch_size, panic_on_db_errors, queue, exit_worker, is_startup_done,
                   connected, next_id, replay_ids, enqueued, dispatched>>

\* worker.rs:116, 127 -- a timeout with nothing to acknowledge.
Continue(w) ==
    /\ Alive
    /\ pc[w] = "timeout"
    /\ ~ShouldNotify(w)
    /\ pc' = [pc EXCEPT ![w] = "loop"]
    /\ UNCHANGED <<table, handled, applied, dispatched_at_exit,
                   batch_size, panic_on_db_errors, client, worker_is_startup_done, queue,
                   exit_worker, is_startup_done, startup_done_count, connected, aborted,
                   next_id, replay_ids, enqueued, dispatched, executed, last_call>>

\* worker.rs:129-135 -- the channel is disconnected and empty.
RecvDisconnected(w) ==
    /\ Alive
    /\ pc[w] = "recv"
    /\ queue[w] = <<>>
    /\ ~connected
    /\ aborted' = panic_on_db_errors
    /\ pc' = [pc EXCEPT ![w] = AfterRecvError]
    /\ UNCHANGED <<table, handled, applied, dispatched_at_exit,
                   batch_size, panic_on_db_errors, client, worker_is_startup_done, queue,
                   exit_worker, is_startup_done, startup_done_count, connected,
                   next_id, replay_ids, enqueued, dispatched, executed, last_call>>

\* ------------------------------------------------------------ producer
\* The producer sends a request to one worker's bounded queue; startup
\* account updates are sent only while replay has not been ended.
Enqueue(w) ==
    /\ Alive
    /\ connected
    /\ next_id <= MaxRequests
    /\ Len(queue[w]) < MaxQueue
    /\ \E work \in WorkRequest(next_id) :
        /\ work.is_startup => ~is_startup_done
        /\ queue' = [queue EXCEPT ![w] = Append(@, work)]
        /\ enqueued' = [enqueued EXCEPT ![w] = Append(@, work)]
        /\ replay_ids' = IF work.is_startup THEN replay_ids \cup {work.id} ELSE replay_ids
    /\ next_id' = next_id + 1
    /\ UNCHANGED <<table, handled, applied, dispatched_at_exit,
                   batch_size, panic_on_db_errors, client, worker_is_startup_done, pc,
                   exit_worker, is_startup_done, startup_done_count, connected, aborted,
                   dispatched, executed, last_call>>

\* The producer signals the end of startup replay, once.
SetStartupDone ==
    /\ Alive
    /\ ~is_startup_done
    /\ is_startup_done' = TRUE
    /\ UNCHANGED <<table, handled, applied, dispatched_at_exit,
                   batch_size, panic_on_db_errors, client, worker_is_startup_done, pc, queue,
                   exit_worker, startup_done_count, connected, aborted,
                   next_id, replay_ids, enqueued, dispatched, executed, last_call>>

\* Graceful shutdown is requested.
SetExit ==
    /\ Alive
    /\ ~exit_worker
    /\ exit_worker' = TRUE
    /\ dispatched_at_exit' = [w \in Workers |-> Len(dispatched[w])]
    /\ UNCHANGED <<table, handled, applied,
                   batch_size, panic_on_db_errors, client, worker_is_startup_done, pc, queue,
                   is_startup_done, startup_done_count, connected, aborted,
                   next_id, replay_ids, enqueued, dispatched, executed, last_call>>

\* The producer drops its senders.
Disconnect ==
    /\ Alive
    /\ connected
    /\ connected' = FALSE
    /\ UNCHANGED <<table, handled, applied, dispatched_at_exit,
                   batch_size, panic_on_db_errors, client, worker_is_startup_done, pc, queue,
                   exit_worker, is_startup_done, startup_done_count, aborted,
                   next_id, replay_ids, enqueued, dispatched, executed, last_call>>

\* ------------------------------------------------ token account handler
\* postgres_client/token_account_handler.rs
TOKEN_PROGRAM_ID == "TokenkegQfeZyiNwAJbNbGKPFXCWuBvf9Ss623VQ5DA"
TOKENZ_PROGRAM_ID == "TokenzQdBNbLqP5VEhdkAS6EPFLC1PHnBqCXEpPxuEb"
SYSTEM_PROGRAM_ID == "11111111111111111111111111111111"
SPL_TOKEN_ACCOUNT_MINT_OFFSET == 0
SPL_TOKEN_ACCOUNT_OWNER_OFFSET == 32
SPL_TOKEN_ACCOUNT_LENGTH == 165
SPL_TOKEN_ACCOUNT_DISCRIMINATOR == 2
PUBKEY_BYTES == 32

\* A key all of whose bytes are b.
KeyBytes == 1..MaxKey
Key(b) == [i \in 1..PUBKEY_BYTES |-> b]

\* The payload lengths tried: empty, around the end of the owner field,
\* around the fixed token-account length.
Lengths ==
    {0,
     SPL_TOKEN_ACCOUNT_OWNER_OFFSET + PUBKEY_BYTES - 1,
     SPL_TOKEN_ACCOUNT_OWNER_OFFSET + PUBKEY_BYTES,
     SPL_TOKEN_ACCOUNT_LENGTH - 1,
     SPL_TOKEN_ACCOUNT_LENGTH,
     SPL_TOKEN_ACCOUNT_LENGTH + 1,
     SPL_TOKEN_ACCOUNT_LENGTH + 2}

\* The bytes tried at offset SPL_TOKEN_ACCOUNT_LENGTH.
Discriminators == {0, SPL_TOKEN_ACCOUNT_DISCRIMINATOR, SPL_TOKEN_ACCOUNT_DISCRIMINATOR + 1}

\* A payload of len bytes: mint key, owner key, zeroes, and byte d at
\* offset SPL_TOKEN_ACCOUNT_LENGTH.  Offsets count from 0, indices from 1.
Payload(len, mint, owner, d) ==
    [i \in 1..len |->
        IF i <= SPL_TOKEN_ACCOUNT_MINT_OFFSET + PUBKEY_BYTES THEN mint
        ELSE IF i <= SPL_TOKEN_ACCOUNT_OWNER_OFFSET + PUBKEY_BYTES THEN owner
        ELSE IF i = SPL_TOKEN_ACCOUNT_LENGTH + 1 THEN d
        ELSE 0]

\* DbAccountInfo as the handler reads it: pubkey(), owner(), data, slot.
DbAccountInfo ==
    { [pubkey |-> Key(k), owner |-> program, data |-> Payload(len, m, o, d), slot |-> slot] :
        k \in KeyBytes, program \in {TOKEN_PROGRAM_ID, TOKENZ_PROGRAM_ID, SYSTEM_PROGRAM_ID},
        len \in Lengths, m \in KeyBytes, o \in KeyBytes, d \in Discriminators, slot \in Slots }

\* slice::get -- the byte at an offset, if there is one.
get(data, offset) == IF offset < Len(data) THEN <<data[offset + 1]>> ELSE <<>>
unwrap_or(option, default) == IF option = <<>> THEN default ELSE option[1]

\* data[from..to] -- panics when the range reaches past the end.
Slice(data, from, to) ==
    IF to <= Len(data) THEN SubSeq(data, from + 1, to) ELSE "panic"

\* bs58::encode(key).into_string()
bs58_encode(key) == <<"bs58", key>>

\* Mutant: a missing byte at the discriminator's offset counts as the
\* discriminator.
account_match_missing_byte(account) ==
    \/ /\ account.owner = TOKEN_PROGRAM_ID
       /\ Len(account.data) = SPL_TOKEN_ACCOUNT_LENGTH
    \/ /\ account.owner = TOKENZ_PROGRAM_ID
       /\ SPL_TOKEN_ACCOUNT_DISCRIMINATOR
            = unwrap_or(get(account.data, SPL_TOKEN_ACCOUNT_LENGTH),
                        SPL_TOKEN_ACCOUNT_DISCRIMINATOR)

\* Mutant: the legacy program's accounts match at any length.
account_match_any_length(account) ==
    \/ account.owner = TOKEN_PROGRAM_ID
    \/ /\ account.owner = TOKENZ_PROGRAM_ID
       /\ SPL_TOKEN_ACCOUNT_DISCRIMINATOR
            = unwrap_or(get(account.data, SPL_TOKEN_ACCOUNT_LENGTH), 0)

\* token_account_handler.rs:54-57
account_match(account) ==
    \/ /\ account.owner = TOKEN_PROGRAM_ID
       /\ Len(account.data) = SPL_TOKEN_ACCOUNT_LENGTH
    \/ /\ account.owner = TOKENZ_PROGRAM_ID
       /\ SPL_TOKEN_ACCOUNT_DISCRIMINATOR
            = unwrap_or(get(account.data, SPL_TOKEN_ACCOUNT_LENGTH), 0)

\* The rows of the table that conflict with row on (pubkey, owner, mint).
Conflicts(rows, row) ==
    { i \in DOMAIN rows :
        /\ rows[i].pubkey = row.pubkey
        /\ rows[i].owner = row.owner
        /\ rows[i].mint = row.mint }

\* Mutant: a plain INSERT into a table without the unique index.
Insert(rows, row) == Append(rows, row)

\* Mutant: the conflict branch has no WHERE clause.
UpsertLastWins(rows, row) ==
    IF Conflicts(rows, row) = {}
    THEN Append(rows, row)
    ELSE [i \in DOMAIN rows |->
            IF i \in Conflicts(rows, row) THEN [rows[i] EXCEPT !.slot = row.slot] ELSE rows[i]]

\* token_account_handler.rs:70-74 -- INSERT ... ON CONFLICT (pubkey, owner,
\* mint) DO UPDATE SET slot = excluded.slot WHERE entry.slot < excluded.slot.
Upsert(rows, row) ==
    IF Conflicts(rows, row) = {}
    THEN Append(rows, row)
    ELSE [i \in DOMAIN rows |->
            IF i \in Conflicts(rows, row) /\ rows[i].slot < row.slot
            THEN [rows[i] EXCEPT !.slot = row.slot]
            ELSE rows[i]]

\* What one account_update call does: the table afterwards, the rows it
\* sent to the database, the error returned, whether it panicked.
Handled(rows, stmts, err, panicked) ==
    [table |-> rows, stmts |-> stmts, err |-> err, panicked |-> panicked]

\* token_account_handler.rs:59-84; ok is the database's answer.
account_update(rows, account, ok) ==
    IF ~account_match(account)
    THEN Handled(rows, <<>>, FALSE, FALSE)
    ELSE LET mint == Slice(account.data, SPL_TOKEN_ACCOUNT_MINT_OFFSET,
                           SPL_TOKEN_ACCOUNT_MINT_OFFSET + PUBKEY_BYTES)
             owner == Slice(account.data, SPL_TOKEN_ACCOUNT_OWNER_OFFSET,
                            SPL_TOKEN_ACCOUNT_OWNER_OFFSET + PUBKEY_BYTES)
         IN  IF mint = "panic" \/ owner = "panic"
             THEN Handled(rows, <<>>, FALSE, TRUE)
             ELSE LET row == [pubkey |-> bs58_encode(account.pubkey),
                              owner |-> bs58_encode(owner),
                              mint |-> bs58_encode(mint),
                              slot |-> account.slot]
                  IN  IF ok
                      THEN Handled(Upsert(rows, row), <<row>>, FALSE, FALSE)
                      ELSE Handled(rows, <<row>>, TRUE, FALSE)

\* Before the handler's first call.
NoUpdate ==
    [called |-> FALSE, worker |-> 0,
     account |-> [pubkey |-> <<>>, owner |-> "", data |-> <<>>, slot |-> 0],
     ok |-> TRUE, repeated |-> FALSE, before |-> <<>>,
     stmts |-> <<>>, err |-> FALSE, panicked |-> FALSE]

\* ------------------------------------------------------- specification
Init ==
    /\ batch_size \in BatchSizes
    /\ panic_on_db_errors \in BOOLEAN
    /\ client = [w \in Workers |-> NewClient]
    /\ worker_is_startup_done = [w \in Workers |-> FALSE]
    /\ pc = [w \in Workers |-> "loop"]
    /\ queue = [w \in Workers |-> <<>>]
    /\ exit_worker = FALSE
    /\ is_startup_done = FALSE
    /\ startup_done_count = 0
    /\ connected = TRUE
    /\ aborted = FALSE
    /\ next_id = 1
    /\ replay_ids = {}
    /\ enqueued = [w \in Workers |-> <<>>]
    /\ dispatched = [w \in Workers |-> <<>>]
    /\ executed = [w \in Workers |-> <<>>]
    /\ last_call = [w \in Workers |-> NoCall]
    /\ dispatched_at_exit = [w \in Workers |-> 0]
    /\ table = <<>>
    /\ handled = NoUpdate
    /\ applied = {}

Next ==
    \/ \E w \in Workers : LoopCheck(w)
    \/ \E w \in Workers : RecvWork(w)
    \/ \E w \in Workers : RecvTimeout(w)
    \/ \E w \in Workers : EndOfStartup(w)
    \/ \E w \in Workers : Continue(w)
    \/ \E w \in Workers : RecvDisconnected(w)
    \/ \E w \in Workers : Enqueue(w)
    \/ SetStartupDone
    \/ SetExit
    \/ Disconnect

Spec == Init /\ [][Next]_vars

\* Every worker is a thread of its own running do_work: whenever it can
\* take a step -- recv_timeout returns after at most 500 ms, a sink call
\* returns -- it eventually does.
WorkerStep(w) ==
    \/ LoopCheck(w)
    \/ RecvWork(w)
    \/ RecvTimeout(w)
    \/ EndOfStartup(w)
    \/ Continue(w)
    \/ RecvDisconnected(w)

\* The pool with a producer that sends MaxFairRequests requests.
FairEnqueue(w) == next_id <= MaxFairRequests /\ Enqueue(w)

FairNext ==
    \/ \E w \in Workers : WorkerStep(w)
    \/ \E w \in Workers : FairEnqueue(w)
    \/ SetStartupDone
    \/ SetExit
    \/ Disconnect

FairSpec == Init /\ [][FairNext]_vars /\ \A w \in Workers : WF_vars(WorkerStep(w))

\* ------------------------------------------------- the sink on its own
\* One sink -- that of the first worker -- is given any sequence of its
\* five operations, with any answers of the database.  No worker runs.
TheSink == CHOOSE w \in Workers : \A v \in Workers : w <= v

\* A request-carrying operation: update_account, update_slot_status,
\* log_transaction or update_block_metadata.
CallRequest ==
    /\ next_id <= MaxCalls
    /\ \E work \in SinkRequest(next_id), ok \in BOOLEAN :
        /\ dispatched' = [dispatched EXCEPT ![TheSink] = Append(@, work)]
        /\ SinkCall(TheSink, OpOf(work), Dispatch(client[TheSink], work, ok))
    /\ next_id' = next_id + 1
    /\ UNCHANGED <<table, handled, applied, dispatched_at_exit,
                   batch_size, panic_on_db_errors, worker_is_startup_done, pc, queue,
                   exit_worker, is_startup_done, startup_done_count, connected, aborted,
                   replay_ids, enqueued>>

CallNotifyEndOfStartup ==
    /\ next_id <= MaxCalls
    /\ \E ok \in BOOLEAN, order \in Orders(client[TheSink].slots_at_startup) :
       \E fail \in 0..Len(order) :
            SinkCall(TheSink, "notify_end_of_startup",
                     notify_end_of_startup(client[TheSink], ok, order, fail))
    /\ next_id' = next_id + 1
    /\ UNCHANGED <<table, handled, applied, dispatched_at_exit,
                   batch_size, panic_on_db_errors, worker_is_startup_done, pc, queue,
                   exit_worker, is_startup_done, startup_done_count, connected, aborted,
                   replay_ids, enqueued, dispatched>>

SinkInit == Init /\ ~panic_on_db_errors

SinkNext == CallRequest \/ CallNotifyEndOfStartup

SinkSpec == SinkInit /\ [][SinkNext]_vars

\* ------------------------------------------ the token handler on its own
\* The workers' connections call the token handler's account_update for
\* any accounts, in any order; each statement is executed atomically by
\* the database, which accepts or refuses it.
AccountUpdate(w) ==
    /\ next_id <= MaxUpdates
    /\ \E account \in DbAccountInfo :
       \E ok \in IF account_match(account) THEN BOOLEAN ELSE {TRUE} :
            LET r == account_update(table, account, ok)
            IN  /\ table' = r.table
                /\ handled' = [called |-> TRUE, worker |-> w, account |-> account, ok |-> ok,
                               repeated |-> /\ handled.called
                                            /\ handled.account = account
                                            /\ ~handled.err
                                            /\ ~handled.panicked,
                               before |-> table, stmts |-> r.stmts, err |-> r.err,
                               panicked |-> r.panicked]
                /\ applied' = IF r.stmts # <<>> /\ ~r.err
                              THEN applied \cup {[worker |-> w, row |-> r.stmts[1]]}
                              ELSE applied
    /\ next_id' = next_id + 1
    /\ UNCHANGED <<batch_size, panic_on_db_errors, client, worker_is_startup_done, pc, queue,
                   exit_worker, is_startup_done, startup_done_count, connected, aborted,
                   replay_ids, enqueued, dispatched, executed, last_call, dispatched_at_exit>>

HandlerInit == Init /\ batch_size = 1 /\ ~panic_on_db_errors

HandlerNext == \E w \in Workers : AccountUpdate(w)

HandlerSpec == HandlerInit /\ [][HandlerNext]_vars

\* ------------------------------------------------------------- history
\* The startup account updates handed to worker w's sink, in arrival order.
IsStartupUpdate(work) == work.kind = "UpdateAccount" /\ work.is_startup
StartupIds(w) == Ids(SelectSeq(dispatched[w], IsStartupUpdate))
StartupSlots(w) ==
    {dispatched[w][i].slot : i \in {j \in DOMAIN dispatched[w] : IsStartupUpdate(dispatched[w][j])}}

IsSizeFlush(s) == s.op = "update_account_batch"
IsFinalFlush(s) == s.op = "flush_accounts"
IsFlush(s) == IsSizeFlush(s) \/ IsFinalFlush(s)
IsRooted(s) == s.op = "flush_slots"

RECURSIVE Batches(_)
Batches(log) == IF log = <<>> THEN <<>> ELSE Head(log).batch \o Batches(Tail(log))

Range(f) == {f[i] : i \in DOMAIN f}

\* ---------------------------------------------------------------- C1
\* C1: between sink operations the pending buffer holds fewer than
\* batch_size records (so never more than batch_size), and the
\* update_account call that brings it to batch_size flushes it: that call
\* issues one statement made of those batch_size records and leaves the
\* buffer empty.
C1_PendingBounded ==
    \A w \in Workers :
        LET last == last_call[w]
            before == last.before.pending_account_updates
            pending == client[w].pending_account_updates
        IN  /\ Len(pending) < batch_size
            /\ Len(before) < batch_size
            /\ (/\ last.op = "update_account"
                /\ IsStartupUpdate(dispatched[w][Len(dispatched[w])])
                /\ Len(before) + 1 = batch_size)
               => /\ pending = <<>>
                  /\ Len(last.stmts) = 1
                  /\ IsSizeFlush(last.stmts[1])
                  /\ last.stmts[1].batch =
                        Ids(before) \o <<dispatched[w][Len(dispatched[w])].id>>

\* A flush of two records made by the update that filled the buffer, after
\* the database had refused a statement and an end of startup had been notified.
C1_Witness ==
    LET w == TheSink
    IN  /\ batch_size = 2
        /\ last_call[w].op = "update_account"
        /\ Len(last_call[w].stmts) = 1
        /\ IsSizeFlush(last_call[w].stmts[1])
        /\ \E i \in DOMAIN executed[w] : IsFinalFlush(executed[w][i]) /\ ~executed[w][i].ok

\* ---------------------------------------------------------------- C3
\* C3: a notify_end_of_startup call in which every statement succeeds
\* issues exactly one Rooted upsert for each slot recorded by a startup
\* account update, and none for any other slot.
C3_OneRootedPerSlot ==
    \A w \in Workers :
        (last_call[w].op = "notify_end_of_startup" /\ ~last_call[w].err)
        => LET rooted == SelectSeq(last_call[w].stmts, IsRooted)
           IN  /\ {rooted[i].slot : i \in DOMAIN rooted} = StartupSlots(w)
               /\ Len(rooted) = Cardinality(StartupSlots(w))
               /\ \A i \in DOMAIN last_call[w].stmts :
                    last_call[w].stmts[i].slot # 0 => IsRooted(last_call[w].stmts[i])

\* A successful end of startup after startup updates of two slots and a
\* status update of a slot.
C3_Witness ==
    LET w == TheSink
    IN  /\ last_call[w].op = "notify_end_of_startup"
        /\ ~last_call[w].err
        /\ Cardinality(StartupSlots(w)) = 2
        /\ \E i \in DOMAIN dispatched[w] : dispatched[w][i].kind = "UpdateSlot"

\* ---------------------------------------------------------------- C4
\* C4: after notify_end_of_startup returns, slots_at_startup is empty.
C4_SlotsCleared ==
    \A w \in Workers :
        last_call[w].op = "notify_end_of_startup" => client[w].slots_at_startup = {}

\* --------------------------------------------------------------- C10
\* C10: every startup record is part of exactly one flush statement, in
\* arrival order, and the records not yet flushed are the pending ones; a
\* size-triggered flush holds exactly batch_size records and the flush of
\* notify_end_of_startup fewer.  Until the first notify_end_of_startup the
\* i-th size-triggered flush is made of records (i-1)*B+1 .. i*B and exists
\* as soon as i*B records have arrived, and the first notify_end_of_startup
\* flushes the remaining k mod B records as one statement.
C10_FlushedOnceInOrder ==
    \A w \in Workers :
        LET ids == StartupIds(w)
            k == Len(ids)
            B == batch_size
            pending == Ids(client[w].pending_account_updates)
            flushes == SelectSeq(executed[w], IsFlush)
            sized == SelectSeq(executed[w], IsSizeFlush)
            final == SelectSeq(executed[w], IsFinalFlush)
            rest == SubSeq(ids, (k \div B) * B + 1, k)
            first_notify == Len(final) = 1 /\ last_call[w].op = "notify_end_of_startup"
        IN  /\ Batches(flushes) \o pending = ids
            /\ \A i \in DOMAIN sized : Len(sized[i].batch) = B
            /\ \A i \in DOMAIN final : Len(final[i].batch) < B
            /\ (final = <<>> \/ first_notify)
               => /\ Len(sized) = k \div B
                  /\ \A i \in DOMAIN sized : sized[i].batch = SubSeq(ids, (i - 1) * B + 1, i * B)
                  /\ final = <<>> => pending = rest
                  /\ first_notify => final[1].batch = rest /\ pending = <<>>

\* Batch size 2 and three startup updates followed by notify_end_of_startup:
\* records 1-2 flushed by the second update, record 3 by the notification.
C10_Witness ==
    LET w == TheSink
    IN  /\ batch_size = 2
        /\ StartupIds(w) = <<1, 2, 3>>
        /\ last_call[w].op = "notify_end_of_startup"
        /\ Len(executed[w]) >= 2
        /\ executed[w][1].batch = <<1, 2>> /\ IsSizeFlush(executed[w][1])
        /\ executed[w][2].batch = <<3>> /\ IsFinalFlush(executed[w][2])

\* ---------------------------------------------------------------- C2
FlushedIds(w) == Range(Batches(SelectSeq(executed[w], IsFlush)))

\* C2: when startup_done_count equals the number of workers, every startup
\* account update enqueued before is_startup_done was set has been part of
\* a flush statement sent by its worker's sink.
C2_ReplayPersisted ==
    startup_done_count = NumWorkers
    => \A w \in Workers : \A i \in DOMAIN enqueued[w] :
            enqueued[w][i].id \in replay_ids => enqueued[w][i].id \in FlushedIds(w)

\* ---------------------------------------------------------------- C5
\* C5: without fail-fast, a notify_end_of_startup call attempts the account
\* flush and a Rooted upsert of every recorded slot, whatever fails.
C5_AllFlushesAttempted ==
    \A w \in Workers :
        (~panic_on_db_errors /\ last_call[w].op = "notify_end_of_startup")
        => /\ \E i \in DOMAIN last_call[w].stmts : IsFinalFlush(last_call[w].stmts[i])
           /\ \A slot \in last_call[w].before.slots_at_startup :
                \E i \in DOMAIN last_call[w].stmts :
                    IsRooted(last_call[w].stmts[i]) /\ last_call[w].stmts[i].slot = slot

\* ---------------------------------------------------------------- C6
NotifyCalls(w) == Len(SelectSeq(executed[w], IsFinalFlush))

\* C6: each worker increments startup_done_count at most once -- the
\* counter is the number of workers whose own is_startup_done is set, so it
\* never exceeds the number of workers -- it never decreases, and the step
\* that increments it is taken with the shared is_startup_done set and is
\* the one in which that worker's notify_end_of_startup call returns.
C6_CounterOncePerWorker ==
    [][/\ startup_done_count' = Cardinality({w \in Workers : worker_is_startup_done'[w]})
       /\ startup_done_count' <= NumWorkers
       /\ startup_done_count' >= startup_done_count
       /\ \A w \in Workers :
            /\ worker_is_startup_done[w] => worker_is_startup_done'[w]
            /\ worker_is_startup_done'[w] => is_startup_done' /\ NotifyCalls(w)' = 1
            /\ (worker_is_startup_done'[w] /\ ~worker_is_startup_done[w])
               => /\ is_startup_done
                  /\ startup_done_count' = startup_done_count + 1
                  /\ last_call'[w].op = "notify_end_of_startup"
                  /\ NotifyCalls(w) = 0
      ]_vars

\* Every worker has acknowledged the end of startup, one of them with a
\* failed flush.
C6_Witness ==
    /\ startup_done_count = NumWorkers
    /\ \A w \in Workers : worker_is_startup_done[w]
    /\ \E w \in Workers : last_call[w].op = "notify_end_of_startup" /\ last_call[w].err

\* ---------------------------------------------------------------- C7
SinkError == \E w \in Workers : last_call[w].err

\* C7: with panic_on_db_errors, the step in which a sink call returns an
\* error aborts the process without touching startup_done_count, and from
\* then on no request leaves a queue, no sink is called and the counter
\* stays as it is.
C7_FailFastTerminates ==
    [][/\ (panic_on_db_errors /\ SinkError)
          => /\ aborted
             /\ queue' = queue
             /\ dispatched' = dispatched
             /\ executed' = executed
             /\ last_call' = last_call
             /\ startup_done_count' = startup_done_count
       /\ (panic_on_db_errors /\ SinkError' /\ ~SinkError)
          => /\ aborted'
             /\ startup_done_count' = startup_done_count
             /\ worker_is_startup_done' = worker_is_startup_done
      ]_vars

\* The process was aborted by a sink error while a request was still queued.
C7_Witness ==
    /\ panic_on_db_errors
    /\ aborted
    /\ SinkError
    /\ \E w \in Workers : queue[w] # <<>>
    /\ \E w \in Workers : dispatched[w] # <<>>

\* ---------------------------------------------------------------- C8
IsRequestStmt(s) == ~IsFinalFlush(s) /\ ~IsRooted(s)

\* C8: without panic_on_db_errors a sink error never aborts the process
\* nor stops the worker (a worker stops only on exit_worker or on a
\* disconnected, empty queue), every request taken from the queue is handed
\* to the sink operation of its kind, and no request is executed twice.
C8_BestEffortContinues ==
    ~panic_on_db_errors
    => /\ ~aborted
       /\ \A w \in Workers :
            /\ pc[w] \in {"loop", "recv", "timeout", "stopped"}
            /\ pc[w] = "stopped" => (exit_worker \/ (~connected /\ queue[w] = <<>>))
            /\ Len(dispatched[w]) + Len(queue[w]) = Len(enqueued[w])
            /\ Len(SelectSeq(executed[w], IsRequestStmt)) <= Len(dispatched[w])
            /\ (last_call[w].op \notin {"none", "notify_end_of_startup"})
               => last_call[w].op = OpOf(dispatched[w][Len(dispatched[w])])

\* A worker's first request was refused by the database and its second one
\* was executed.
C8_Witness ==
    /\ ~panic_on_db_errors
    /\ \E w \in Workers :
        /\ Len(dispatched[w]) = 2
        /\ Len(executed[w]) = 2
        /\ ~executed[w][1].ok
        /\ executed[w][2].ok
        /\ IsRequestStmt(executed[w][1]) /\ IsRequestStmt(executed[w][2])

\* ---------------------------------------------------------------- C9
\* C9: the requests handed to a worker's sink, followed by those still
\* queued, are the requests enqueued, in the order of enqueueing: each
\* request is dispatched once, in FIFO order.
C9_Fifo ==
    \A w \in Workers :
        /\ dispatched[w] \o queue[w] = enqueued[w]
        /\ \A i, j \in DOMAIN dispatched[w] : i < j => dispatched[w][i].id < dispatched[w][j].id

\* Two requests of one queue have both been dispatched.
C9_Witness ==
    \E w \in Workers : Len(dispatched[w]) = 2 /\ Len(enqueued[w]) = 2

\* --------------------------------------------------------------- C11
\* C11: a sink call whose flush of the pending batch is refused returns
\* the error, makes no further statement, and leaves the buffer empty; the
\* records of a refused batch are in no other flush statement and in no
\* later buffer.
C11_RefusedBatchDropped ==
    \A w \in Workers :
        LET last == last_call[w]
            flushes == SelectSeq(executed[w], IsFlush)
        IN  /\ (\E i \in DOMAIN last.stmts : IsFlush(last.stmts[i]) /\ ~last.stmts[i].ok)
               => /\ last.err
                  /\ Len(last.stmts) = 1
                  /\ client[w].pending_account_updates = <<>>
            /\ \A i \in DOMAIN flushes :
                ~flushes[i].ok
                => /\ \A j \in DOMAIN flushes :
                        j # i => Range(flushes[j].batch) \cap Range(flushes[i].batch) = {}
                   /\ Range(Ids(client[w].pending_account_updates))
                        \cap Range(flushes[i].batch) = {}

\* A refused flush of two records was followed by an accepted flush of a
\* later record.
C11_Witness ==
    LET flushes == SelectSeq(executed[TheSink], IsFlush)
    IN  /\ Len(flushes) >= 2
        /\ ~flushes[1].ok /\ Len(flushes[1].batch) = 2
        /\ flushes[2].ok /\ Len(flushes[2].batch) = 1

\* --------------------------------------------------------------- C12
\* The request handed to worker w's sink last.
LastWork(w) == dispatched[w][Len(dispatched[w])]

\* C12: update_account with is_startup = false leaves the pending buffer
\* and slots_at_startup as they were, whatever the database answers, and
\* flushes nothing: its only statement is the update of that one record,
\* executed in the call itself (none when no handler produces a statement
\* for the record), and its error is that statement's refusal.
C12_LiveUpdateNotBuffered ==
    \A w \in Workers :
        (last_call[w].op = "update_account" /\ ~LastWork(w).is_startup)
        => LET last == last_call[w]
           IN  /\ client[w] = last.before
               /\ \A i \in DOMAIN last.stmts : ~IsFlush(last.stmts[i])
               /\ LastWork(w).matched
                  => /\ Len(last.stmts) = 1
                     /\ last.stmts[1].op = "update_account"
                     /\ last.stmts[1].batch = <<LastWork(w).id>>
                     /\ last.err = ~last.stmts[1].ok
               /\ ~LastWork(w).matched => last.stmts = <<>> /\ ~last.err

\* A refused live update of a slot not seen at startup, made while a
\* startup record was waiting in the buffer.
C12_Witness ==
    LET w == TheSink
    IN  /\ last_call[w].op = "update_account"
        /\ ~LastWork(w).is_startup
        /\ last_call[w].err
        /\ Len(client[w].pending_account_updates) = 1
        /\ LastWork(w).slot \notin client[w].slots_at_startup

\* --------------------------------------------------------------- C20
\* C20: the first statement of a notify_end_of_startup call is the flush
\* of whatever is pending, however few records that is; every statement
\* after it is the Rooted upsert of one slot, no slot twice, and all of
\* them come only if the flush was accepted.
C20_FlushThenSlotsOneByOne ==
    \A w \in Workers :
        last_call[w].op = "notify_end_of_startup"
        => LET stmts == last_call[w].stmts
           IN  /\ Len(stmts) >= 1
               /\ IsFinalFlush(stmts[1])
               /\ stmts[1].batch = Ids(last_call[w].before.pending_account_updates)
               /\ \A i \in 2..Len(stmts) :
                    /\ IsRooted(stmts[i])
                    /\ stmts[i].slot \in last_call[w].before.slots_at_startup
                    /\ \A j \in 2..Len(stmts) : j # i => stmts[j].slot # stmts[i].slot
               /\ (~stmts[1].ok) => Len(stmts) = 1
               /\ (~last_call[w].err)
                  => Len(stmts) = 1 + Cardinality(last_call[w].before.slots_at_startup)

\* A notification that flushed one pending record with batch size 2 and
\* then rooted two slots.
C20_Witness ==
    LET w == TheSink
    IN  /\ batch_size = 2
        /\ last_call[w].op = "notify_end_of_startup"
        /\ Len(last_call[w].before.pending_account_updates) = 1
        /\ Len(last_call[w].stmts) = 3

\* --------------------------------------------------------------- C13
\* The accounts the handler is to act on, in the words of the claim.
C13_Selected(account) ==
    \/ /\ account.owner = TOKEN_PROGRAM_ID
       /\ Len(account.data) = 165
    \/ /\ account.owner = TOKENZ_PROGRAM_ID
       /\ Len(account.data) > 165
       /\ account.data[166] = 2

\* C13: the token handler acts on an account exactly when its owner is the
\* legacy token program and its payload is 165 bytes long, or its owner is
\* the extended token program and the payload has the byte 2 at offset 165
\* (so is longer than 165 bytes); for any other account account_update
\* sends nothing to the database, leaves the table alone and returns
\* success.
C13_MatchExactly ==
    handled.called
    => /\ account_match(handled.account) = C13_Selected(handled.account)
       /\ C13_Selected(handled.account) => Len(handled.stmts) = 1
       /\ ~C13_Selected(handled.account)
          => /\ handled.stmts = <<>>
             /\ ~handled.err
             /\ ~handled.panicked
             /\ table = handled.before

\* Every way of not matching has been handed to the handler: a legacy
\* account of another length, an extended account with no byte at offset
\* 165 or another byte there, an account of another program.
C13_Witness ==
    /\ handled.called
    /\ handled.stmts = <<>>
    /\ handled.account.owner = TOKENZ_PROGRAM_ID
    /\ Len(handled.account.data) = 165

\* --------------------------------------------------------------- C14
\* C14: an account update that the database accepted, applied a second
\* time, leaves the table exactly as the first application left it.
C14_UpsertIdempotent ==
    (handled.called /\ handled.repeated /\ ~handled.err) => table = handled.before

\* The same matching update was accepted twice in a row.
C14_Witness ==
    /\ handled.called
    /\ handled.repeated
    /\ ~handled.err
    /\ Len(handled.stmts) = 1
    /\ Len(table) = 1

\* --------------------------------------------------------------- C15
\* Rows with the same (pubkey, owner, mint), and the slots accepted for a
\* row's key so far.
SameKey(a, b) == a.pubkey = b.pubkey /\ a.owner = b.owner /\ a.mint = b.mint

AppliedSlots(row) == { u.row.slot : u \in { v \in applied : SameKey(v.row, row) } }

\* C15: whichever workers apply the updates of a key, in whatever order,
\* the table holds one row for the key, its slot never decreases, and after
\* every accepted update it is the highest slot applied for that key.
C15_HighestSlotWins ==
    [][ /\ \A i \in DOMAIN table :
            /\ i \in DOMAIN table'
            /\ SameKey(table'[i], table[i])
            /\ table'[i].slot >= table[i].slot
        /\ \A u \in applied' :
            \E i \in DOMAIN table' :
                /\ SameKey(table'[i], u.row)
                /\ table'[i].slot \in AppliedSlots(u.row)'
                /\ \A slot \in AppliedSlots(u.row)' : slot <= table'[i].slot
                /\ \A j \in DOMAIN table' : SameKey(table'[j], u.row) => j = i
      ]_vars

\* Two different workers applied updates of one key, the higher slot
\* first.
C15_Witness ==
    /\ handled.called
    /\ ~handled.err
    /\ Len(handled.stmts) = 1
    /\ \E u \in applied :
        /\ u.worker # handled.worker
        /\ SameKey(u.row, handled.stmts[1])
        /\ u.row.slot > handled.stmts[1].slot

\* --------------------------------------------------------------- C16
\* C16: a worker calls notify_end_of_startup at most once; the step that
\* calls it starts after a receive timeout, with the shared is_startup_done
\* set and the worker's own flag unset; a timeout is only entered from an
\* empty queue; without panic_on_db_errors the calling step sets the
\* worker's flag and increments the counter whatever the call returned; and
\* the flag, once set, stays set.
C16_NotifyOnceOnTimeout ==
    [][ \A w \in Workers :
            /\ NotifyCalls(w)' <= 1
            /\ (pc'[w] = "timeout" /\ pc[w] # "timeout")
               => pc[w] = "recv" /\ queue[w] = <<>>
            /\ NotifyCalls(w)' > NotifyCalls(w)
               => /\ pc[w] = "timeout"
                  /\ is_startup_done
                  /\ ~worker_is_startup_done[w]
                  /\ ~panic_on_db_errors
                     => /\ worker_is_startup_done'[w]
                        /\ startup_done_count' = startup_done_count + 1
                        /\ pc'[w] = "loop"
            /\ worker_is_startup_done[w] => worker_is_startup_done'[w]
      ]_vars

\* Without panic_on_db_errors a worker whose end-of-startup flush was
\* refused has acknowledged, and is at a later timeout with nothing to do.
C16_Witness ==
    \E w \in Workers :
        /\ ~panic_on_db_errors
        /\ last_call[w].op = "notify_end_of_startup"
        /\ last_call[w].err
        /\ worker_is_startup_done[w]
        /\ startup_done_count >= 1
        /\ pc[w] = "timeout"

\* --------------------------------------------------------------- C19
\* C19: a receive that finds the queue empty and the producer gone aborts
\* the process with panic_on_db_errors and stops the worker without it; a
\* stopped worker stays stopped, receives nothing, calls its sink no more
\* and does not touch its flag, and the counter moves only with the flag of
\* a worker that is not stopped; a step out of a timeout leads back to the
\* top of the loop unless a sink error aborts the process.
C19_DisconnectStopsWorker ==
    [][ /\ \A w \in Workers :
            /\ (pc[w] = "recv" /\ queue[w] = <<>> /\ ~connected /\ pc'[w] # pc[w])
               => IF panic_on_db_errors
                  THEN pc'[w] = "aborted" /\ aborted'
                  ELSE pc'[w] = "stopped" /\ ~aborted'
            /\ pc[w] = "stopped"
               => /\ pc'[w] = "stopped"
                  /\ Len(queue'[w]) >= Len(queue[w])
                  /\ dispatched'[w] = dispatched[w]
                  /\ executed'[w] = executed[w]
                  /\ client'[w] = client[w]
                  /\ worker_is_startup_done'[w] = worker_is_startup_done[w]
            /\ (pc[w] = "timeout" /\ pc'[w] # "timeout")
               => \/ pc'[w] = "loop"
                  \/ pc'[w] = "aborted" /\ panic_on_db_errors /\ last_call'[w].err
        /\ startup_done_count' # startup_done_count
           => \E v \in Workers :
                /\ pc[v] # "stopped"
                /\ worker_is_startup_done'[v] # worker_is_startup_done[v]
      ]_vars

\* A worker stopped because the producer disconnected, not because exit
\* was requested, while the end of startup was still to be acknowledged.
C19_Witness ==
    \E w \in Workers :
        /\ pc[w] = "stopped"
        /\ ~exit_worker
        /\ ~connected
        /\ is_startup_done
        /\ ~worker_is_startup_done[w]

\* --------------------------------------------------------------- C17
\* C17: in a run where exit_worker is never set and the producer never
\* disconnects, once is_startup_done is set the process is eventually
\* aborted by a sink error or startup_done_count reaches the number of
\* workers, every worker having made its notify_end_of_startup call.
C17_AllAcknowledgeUnlessAborted ==
    ([]~exit_worker /\ []connected)
    => (is_startup_done
        ~> \/ aborted
           \/ /\ startup_done_count = NumWorkers
              /\ \A w \in Workers : NotifyCalls(w) = 1)

\* The counter reached the number of workers after every worker's flush,
\* with the producer connected and no exit requested.
C17_Witness ==
    /\ startup_done_count = NumWorkers
    /\ \A w \in Workers : NotifyCalls(w) = 1
    /\ ~exit_worker
    /\ connected
    /\ \E w \in Workers : dispatched[w] # <<>>

\* The claim as stated, without the abort: under the same conditions the
\* counter eventually reaches the number of workers.
C17_AllAcknowledge ==
    ([]~exit_worker /\ []connected)
    => (is_startup_done ~> startup_done_count = NumWorkers)

C21_NoReadOutsidePayload ==
    handled.called
    => /\ ~handled.panicked
       /\ account_match(handled.account) => Len(handled.account.data) >= 64
       /\ handled.stmts # <<>> => Len(handled.account.data) >= 64
       /\ Len(handled.account.data) < 165
          => /\ ~account_match(handled.account)
             /\ handled.stmts = <<>>
             /\ ~handled.err
             /\ table = handled.before

\* An account of the extended token program with a 63-byte payload -- the
\* mint and one byte less than the owner -- was handed to the handler.
C21_Witness ==
    /\ handled.called
    /\ handled.account.owner = TOKENZ_PROGRAM_ID
    /\ Len(handled.account.data) = 63
    /\ ~handled.panicked
    /\ handled.stmts = <<>>

\* --------------------------------------------------------------- C22
\* C22: as long as notify_end_of_startup has not been called on a sink, the
\* slot of every record in its pending buffer and the slot of every startup
\* record it ever accepted -- buffered, flushed or part of a refused batch --
\* is in its slots_at_startup.
C22_StartupSlotsRecorded ==
    \A w \in Workers :
        NotifyCalls(w) = 0
        => /\ \A i \in DOMAIN client[w].pending_account_updates :
                client[w].pending_account_updates[i].slot \in client[w].slots_at_startup
           /\ StartupSlots(w) \subseteq client[w].slots_at_startup

\* Before any notification: a batch holding a record of slot 2 was
\* refused and a later record of slot 1 is waiting in the buffer.
C22_Witness ==
    LET w == TheSink
        flushes == SelectSeq(executed[w], IsFlush)
    IN  /\ NotifyCalls(w) = 0
        /\ Len(flushes) = 1
        /\ ~flushes[1].ok
        /\ Len(client[w].pending_account_updates) = 1
        /\ client[w].pending_account_updates[1].slot = 1
        /\ client[w].slots_at_startup = {1, 2}

====
